---- MODULE Spec2Model ----
(***************************************************************************)
(* State-machine model of the feedback service: the admin session guard    *)
(* (routes/admin.py), the review submission pipeline (routes/user.py,      *)
(* services/llm_service.py) and the review store (services/                *)
(* review_service.py, database.py).                                        *)
(*                                                                         *)
(* Time is counted in hours.  A text is a sequence of one-character        *)
(* strings; a fixed literal of the source is a one-element sequence        *)
(* holding the literal, and an f-string is the sequence of its pieces.     *)
(* A request handler is cut into steps at its suspension points (the       *)
(* dependency resolution of validate_token, each await), so that other     *)
(* requests interleave exactly where the event loop lets them.  Each       *)
(* step, validate_token included, is taken as atomic.  A store operation   *)
(* either takes effect and returns, or raises without effect.              *)
(***************************************************************************)
EXTENDS Integers, Sequences, FiniteSets, TLC

(* ------------------------------ bounds --------------------------------- *)
\* number of successful logins (uuid4 tokens minted) in one behaviour
MaxLogins == 2
\* the clock stops advancing at this hour
MaxTime == 36
\* hours by which one step of the wall clock advances
TickHours == 12
\* number of admin requests in flight at once
MaxRequests == 2
\* number of review submissions accepted for processing in one behaviour
MaxSubmissions == 1
\* the same, where the store is queried while submissions arrive
MaxStored == 2
\* number of admin logins there
MaxSessions == 1

(* --------------------------- configuration ----------------------------- *)
session_expire_hours == 24
admin_password == "admin123"
llm_model == "gpt-4o-mini"

(* ------------------------------- inputs -------------------------------- *)
\* passwords a client may post: the right one, a wrong one, the empty one
Passwords == {"admin123", "letmein", ""}
\* hours that may pass between the two clock reads of one login
ClockDrift == {0, 1}
\* a bearer token is the number of the login that minted it; a client may also
\* present 0, a string that was never minted
Requests == 1..MaxRequests
ProtectedOps == {"logout", "get_reviews", "get_analytics"}

VARIABLES
    now,            \* datetime.utcnow(), in hours
    active_tokens,  \* admin.py _active_tokens: token -> [created_at, expires_at]
    issued,         \* number of uuid4 tokens generated so far
    logged_out,     \* history: tokens whose logout handler has completed
    req,            \* admin requests in flight: position and presented token
    database,       \* database.py _database: "None" or "connected"
    lifespan,       \* main.py lifespan: "startup", "serving", "failed", or
                    \* "unmanaged" when the server runs no lifespan events
    reviews,        \* the reviews collection, in insertion order
    sub,            \* the review submission in flight
    submitted,      \* number of submissions accepted for processing so far
    saved,          \* history: the arguments of each save_review that returned
    last            \* history: the step just taken, its inputs and its response

vars == <<now, active_tokens, issued, logged_out, req, database, lifespan,
          reviews, sub, submitted, saved, last>>

authVars == <<active_tokens, issued, logged_out>>
storeVars == <<reviews, sub, submitted, saved>>

(* ------------------------------ helpers -------------------------------- *)
\* del d[k]
Remove(d, k) == [x \in (DOMAIN d) \ {k} |-> d[x]]

\* d[k] = v
Put(d, k, v) == [x \in (DOMAIN d) \cup {k} |-> IF x = k THEN v ELSE d[x]]

IdleRequest == [pc |-> "idle"]

(* ------------------------- startup (main.py) --------------------------- *)
\* connect_to_mongodb as run by lifespan: the ping fails (no handle is set),
\* the index creation fails (the handle is set, the error is re-raised), or
\* the connection succeeds.  Requests are served only after lifespan yields.
connect_to_mongodb ==
    /\ lifespan = "startup"
    /\ \E outcome \in {"ok", "ping_failed", "index_failed"} :
        /\ database' = IF outcome = "ping_failed" THEN "None" ELSE "connected"
        /\ lifespan' = IF outcome = "ok" THEN "serving" ELSE "failed"
        /\ last' = [op |-> "connect_to_mongodb", outcome |-> outcome]
    /\ UNCHANGED <<now, authVars, req, storeVars>>

\* The application is driven by a server or a test client that sends no
\* lifespan events (or goes on after the startup failed): the handlers are
\* called although lifespan never yielded, with the handle as it is.
serve_without_lifespan ==
    /\ lifespan \in {"startup", "failed"}
    /\ lifespan' = "unmanaged"
    /\ last' = [op |-> "serve_without_lifespan"]
    /\ UNCHANGED <<now, authVars, req, database, storeVars>>

\* the routes of the application are being called
Serving == lifespan \in {"serving", "unmanaged"}

(* ------------------------------ the clock ------------------------------ *)
Tick ==
    /\ now + TickHours <= MaxTime
    /\ now' = now + TickHours
    /\ last' = [op |-> "tick"]
    /\ UNCHANGED <<authVars, req, database, lifespan, storeVars>>

(* ------------------- admin session guard (admin.py) -------------------- *)
\* generate_token: a fresh uuid4 and the expiry, from the first clock read
generate_token == [token |-> issued + 1, expires_at |-> now + session_expire_hours]

\* faulty variant: a token is rejected from its expiry instant on
ValidateTokenOutcome_at_expiry(tokens, token, t) ==
    IF token \notin DOMAIN tokens THEN "unknown"
    ELSE IF t >= tokens[token].expires_at THEN "expired"
    ELSE "ok"

\* faulty variant: the expiry is never looked at
ValidateTokenOutcome_no_expiry(tokens, token, t) ==
    IF token \notin DOMAIN tokens THEN "unknown" ELSE "ok"

\* the decision of validate_token for `token` against the map `tokens` at time t
ValidateTokenOutcome(tokens, token, t) ==
    IF token \notin DOMAIN tokens THEN "unknown"
    ELSE IF t > tokens[token].expires_at THEN "expired"
    ELSE "ok"

\* faulty variant: an expired entry is rejected but stays in the map
ValidateTokenMap_no_evict(tokens, token, t) == tokens

\* the token map validate_token leaves behind
ValidateTokenMap(tokens, token, t) ==
    IF ValidateTokenOutcome(tokens, token, t) = "expired"
    THEN Remove(tokens, token)
    ELSE tokens

\* faulty variant: the password check does not stop the login
LoginMap_no_check(tokens, password, gen, created) ==
    Put(tokens, gen.token, [created_at |-> created, expires_at |-> gen.expires_at])

\* faulty variant: a login ends every earlier session
LoginMap_single_session(tokens, password, gen, created) ==
    IF password # admin_password THEN tokens
    ELSE [t \in {gen.token} |->
            [created_at |-> created, expires_at |-> gen.expires_at]]

\* the token map admin_login leaves behind for `password`; `created` is the
\* second clock read
LoginMap(tokens, password, gen, created) ==
    IF password # admin_password THEN tokens
    ELSE Put(tokens, gen.token, [created_at |-> created, expires_at |-> gen.expires_at])

LoginStatus(password) ==
    IF Len(password) < 1 THEN 400
    ELSE IF password # admin_password THEN 401
    ELSE 200

\* POST /api/admin/login.  AdminLoginRequest (min_length=1) rejects the empty
\* password before admin_login runs; admin_login has no suspension point.
admin_login(password, drift) ==
    /\ Serving
    /\ LET status == LoginStatus(password)
           gen == generate_token
       IN  /\ status # 200 => drift = 0
           /\ active_tokens' =
                IF status = 400 THEN active_tokens
                ELSE LoginMap(active_tokens, password, gen, now + drift)
           /\ issued' = IF status = 200 THEN issued + 1 ELSE issued
           /\ now' = now + drift
           /\ last' = [op |-> "admin_login", password |-> password,
                       status |-> status,
                       token |-> IF status = 200 THEN gen.token ELSE 0,
                       before |-> active_tokens]
    /\ UNCHANGED <<logged_out, req, database, lifespan, storeVars>>

\* Depends(validate_token) of a protected route: request i arrives with `token`
\* for operation `op`; on rejection the request ends with 401 and its handler
\* never runs.
validate_token(i, op, token) ==
    /\ Serving
    /\ req[i].pc = "idle"
    /\ LET outcome == ValidateTokenOutcome(active_tokens, token, now)
       IN  /\ active_tokens' = ValidateTokenMap(active_tokens, token, now)
           /\ req' = IF outcome = "ok"
                     THEN [req EXCEPT ![i] =
                            [pc |-> "validated", op |-> op, token |-> token,
                             \* history: the token map held the token, unexpired,
                             \* when it was validated
                             held |-> /\ token \in DOMAIN active_tokens
                                      /\ now <= active_tokens[token].expires_at]]
                     ELSE req
           /\ last' = [op |-> "validate_token", req |-> i, for |-> op,
                       token |-> token, outcome |-> outcome,
                       status |-> IF outcome = "ok" THEN 200 ELSE 401,
                       queried |-> FALSE, before |-> active_tokens]
    /\ UNCHANGED <<now, issued, logged_out, database, lifespan, storeVars>>

\* faulty variant: logout answers without removing the entry
LogoutMap_keep(tokens, token) == tokens

\* the token map the body of admin_logout leaves behind
LogoutMap(tokens, token) ==
    IF token \in DOMAIN tokens THEN Remove(tokens, token) ELSE tokens

\* POST /api/admin/logout, the handler body (after validate_token accepted)
admin_logout(i) ==
    /\ req[i].pc = "validated"
    /\ req[i].op = "logout"
    /\ active_tokens' = LogoutMap(active_tokens, req[i].token)
    /\ logged_out' = logged_out \cup {req[i].token}
    /\ req' = [req EXCEPT ![i] = IdleRequest]
    /\ last' = [op |-> "admin_logout", req |-> i, token |-> req[i].token,
                status |-> 200, queried |-> FALSE, held |-> req[i].held,
                before |-> active_tokens]
    /\ UNCHANGED <<now, issued, database, lifespan, storeVars>>

(* ------------------------ texts and documents -------------------------- *)
RECURSIVE LStrip(_)
LStrip(s) == IF s # << >> /\ Head(s) = " " THEN LStrip(Tail(s)) ELSE s

RECURSIVE RStrip(_)
RStrip(s) ==
    IF s # << >> /\ s[Len(s)] = " " THEN RStrip(SubSeq(s, 1, Len(s) - 1)) ELSE s

\* str.strip() of a text given character by character
Strip(s) == RStrip(LStrip(s))

\* A review text is given by its run lengths: leading whitespace, the core
\* from the first to the last non-whitespace character, trailing whitespace.
TextLen(t) == t.lead + t.core + t.trail

\* str.strip() of a review text
StripText(t) == [lead |-> 0, core |-> t.core, trail |-> 0]

\* faulty variant: the validator on the stripped text is missing
ValidSubmission_as_sent(rating, text) ==
    /\ rating >= 1 /\ rating <= 5
    /\ TextLen(text) >= 10 /\ TextLen(text) <= 1000

\* ReviewSubmissionRequest: rating ge=1 le=5, review_text min_length=10
\* max_length=1000 on the text as sent, then the validator on the stripped text
ValidSubmission(rating, text) ==
    /\ rating >= 1 /\ rating <= 5
    /\ TextLen(text) >= 10 /\ TextLen(text) <= 1000
    /\ TextLen(StripText(text)) >= 10

(* --------------------- analysis (llm_service.py) ----------------------- *)
FALLBACK_RESPONSES ==
    [r \in 1..5 |->
        CASE r = 5 -> <<"Thank you for your excellent review! ...">>
          [] r = 4 -> <<"Thank you for your positive feedback! ...">>
          [] r = 3 -> <<"Thank you for your honest review. ...">>
          [] r = 2 -> <<"We're sorry your experience didn't meet your expectations. ...">>
          [] r = 1 -> <<"We sincerely apologize for your disappointing experience. ...">>]

\* faulty variant: a rating without a table entry gets the empty text
get_fallback_response_no_default(rating) ==
    IF rating \in DOMAIN FALLBACK_RESPONSES
    THEN FALLBACK_RESPONSES[rating]
    ELSE << >>

\* FALLBACK_RESPONSES.get(rating, FALLBACK_RESPONSES[3])
get_fallback_response(rating) ==
    IF rating \in DOMAIN FALLBACK_RESPONSES
    THEN FALLBACK_RESPONSES[rating]
    ELSE FALLBACK_RESPONSES[3]

get_fallback_actions(rating) ==
    IF rating >= 4 THEN <<"Maintain current service standards ...">>
    ELSE IF rating = 3 THEN <<"Review feedback for improvement areas ...">>
    ELSE <<"Prioritize addressing customer concerns ...">>

\* the summary substituted when the admin summary task raised
AutoSummaryFailed(rating, text) ==
    <<"[Auto-summary failed] Rating: ", ToString(rating), "/5. Review length: ",
      ToString(TextLen(text)), " chars.">>

ProcessingFailed == <<"[Processing failed - manual review needed]">>

\* what one chain.ainvoke can do: raise (provider error, timeout) or return text
LLMOutputs == {<<" ">>, <<" ", "a", " ">>}
LLMOutcomes ==
    {[kind |-> k, text |-> << >>] : k \in {"error", "timeout"}}
        \cup {[kind |-> "text", text |-> t] : t \in LLMOutputs}

Pending == [exc |-> FALSE, done |-> FALSE, text |-> << >>]

\* the value a _generate_* coroutine settles with: an exception, or the
\* stripped response
Settle(outcome) ==
    IF outcome.kind = "text"
    THEN [exc |-> FALSE, done |-> TRUE, text |-> Strip(outcome.text)]
    ELSE [exc |-> TRUE, done |-> TRUE, text |-> << >>]

\* faulty variant: the reply is dropped for the fallback whatever its task did
UserResponseOf_dropped(result, rating) == get_fallback_response(rating)

\* process_review lines 64-70: each gathered result, or its own fallback
UserResponseOf(result, rating) ==
    IF result.exc THEN get_fallback_response(rating) ELSE result.text

AdminSummaryOf(result, rating, text) ==
    IF result.exc THEN AutoSummaryFailed(rating, text) ELSE result.text

\* process_review lines 71-77
RecommendedActionsOf(result, rating) ==
    IF result.exc THEN get_fallback_actions(rating) ELSE result.text

\* process_review line 83: the model name reported with the results; `failed`
\* is the set of external calls that raised
ModelUsed(failed) == llm_model

\* faulty variant: the exceptions of the external calls reach the caller
process_review_propagating(rating, text, reply, summary, actions, failed) ==
    [raised |-> failed # {},
     user_response |-> reply,
     admin_summary |-> summary,
     recommended_actions |-> RecommendedActionsOf(actions, rating),
     model_used |-> ModelUsed(failed)]

\* What process_review hands to its caller once the recommended-actions call
\* has settled with `actions`.  Every exception of the three external calls is
\* consumed where it arrives (return_exceptions=True, the inner try), and no
\* other statement of lines 57-84 can raise, so the outer handler of lines
\* 86-93 is never entered and nothing is raised to the caller.
process_review(rating, text, reply, summary, actions, failed) ==
    [raised |-> FALSE,
     user_response |-> reply,
     admin_summary |-> summary,
     recommended_actions |-> RecommendedActionsOf(actions, rating),
     model_used |-> ModelUsed(failed)]

(* -------------------- review store (review_service.py) ----------------- *)
\* the document save_review builds; the store assigns the next fresh id
Document(rating, text, reply, summary, actions, time_ms, model, status) ==
    [id |-> Len(reviews) + 1,
     rating |-> rating,
     review_text |-> text,
     user_response |-> reply,
     admin_summary |-> summary,
     recommended_actions |-> actions,
     metadata |-> [submission_time |-> now,
                   processing_time_ms |-> time_ms,
                   llm_model |-> model,
                   status |-> status]]

\* the document save_review builds from the arguments of one call
DocumentOf(a) ==
    Document(a.rating, a.review_text, a.user_response, a.admin_summary,
             a.recommended_actions, a.processing_time_ms, a.llm_model, a.status)

\* str(ObjectId): the 24 hexadecimal digits of the id
str(id) == [hex |-> id]

\* faulty variant: a store operation connects on demand
StoreFails_connect_on_demand(outcome) == outcome = "fail"

\* get_reviews_collection raises while the handle is unset; otherwise the
\* store operation itself succeeds or raises (store unreachable)
StoreFails(outcome) == database = "None" \/ outcome = "fail"
StoreOutcomes == {"ok", "fail"}

\* int((time.time() - start_time) * 1000), the clock counting hours
ProcessingTimeMs(start_time) == (now - start_time) * 3600000

\* faulty variant: the document is inserted although save_review raises
save_review_insert_then_raise(fails, doc) == Append(reviews, doc)

\* faulty variant: the saved document takes the place of the collection
save_review_overwrite(fails, doc) == IF fails THEN reviews ELSE <<doc>>

\* the collection save_review leaves behind: insert_one inserts the document
\* and returns, or raises having inserted nothing
save_review(fails, doc) == IF fails THEN reviews ELSE Append(reviews, doc)

\* submit_review lines 55-97: where the handler goes after the primary save
AfterPrimarySave(fails) == IF fails THEN "fallback_save" ELSE "respond"

\* faulty variant: a failed primary save is fatal to the request
FallbackSaveStatus_always_500(fails) == 500

\* submit_review lines 99-112: the status after the fallback save
FallbackSaveStatus(fails) == IF fails THEN 500 ELSE 200

(* ------------------- submission pipeline (user.py) --------------------- *)
IdleSubmission == [pc |-> "idle"]

\* POST /api/user/submit-review arrives: request validation, then the handler
\* starts both generation tasks and suspends in asyncio.gather
submit_review(rating, text) ==
    /\ Serving
    /\ sub.pc = "idle"
    /\ IF ValidSubmission(rating, text)
       THEN /\ sub' = [pc |-> "gather", rating |-> rating, text |-> text,
                       review_text |-> StripText(text), start_time |-> now,
                       user_response |-> Pending, admin_summary |-> Pending,
                       failed |-> {}, inserted |-> 0]
            /\ submitted' = submitted + 1
            /\ last' = [op |-> "submit_review_received", rating |-> rating,
                        text |-> text]
       ELSE /\ UNCHANGED <<sub, submitted>>
            /\ last' = [op |-> "submit_review", status |-> 400,
                        success |-> FALSE, rating |-> rating, text |-> text,
                        failed |-> {}, inserted |-> 0, saves_failed |-> 0]
    /\ UNCHANGED <<now, authVars, req, database, lifespan, reviews, saved>>

\* the user-reply task settles
generate_user_response(outcome) ==
    /\ sub.pc = "gather"
    /\ ~sub.user_response.done
    /\ sub' = [sub EXCEPT !.user_response = Settle(outcome),
                          !.failed = IF outcome.kind = "text" THEN @
                                     ELSE @ \cup {"user_response"}]
    /\ last' = [op |-> "generate_user_response", outcome |-> outcome]
    /\ UNCHANGED <<now, authVars, req, database, lifespan, reviews, submitted,
                   saved>>

\* the admin-summary task settles
generate_admin_summary(outcome) ==
    /\ sub.pc = "gather"
    /\ ~sub.admin_summary.done
    /\ sub' = [sub EXCEPT !.admin_summary = Settle(outcome),
                          !.failed = IF outcome.kind = "text" THEN @
                                     ELSE @ \cup {"admin_summary"}]
    /\ last' = [op |-> "generate_admin_summary", outcome |-> outcome]
    /\ UNCHANGED <<now, authVars, req, database, lifespan, reviews, submitted,
                   saved>>

\* asyncio.gather(return_exceptions=True) returns once both tasks have
\* settled; fallbacks are substituted and the recommended-actions call is
\* awaited
gather_returns ==
    /\ sub.pc = "gather"
    /\ sub.user_response.done /\ sub.admin_summary.done
    /\ sub' = [pc |-> "actions", rating |-> sub.rating, text |-> sub.text,
                review_text |-> sub.review_text, start_time |-> sub.start_time,
                settled |-> [user_response |-> sub.user_response,
                             admin_summary |-> sub.admin_summary],
                user_response |-> UserResponseOf(sub.user_response, sub.rating),
                admin_summary |-> AdminSummaryOf(sub.admin_summary, sub.rating,
                                                 sub.review_text),
                failed |-> sub.failed, inserted |-> sub.inserted]
    /\ last' = [op |-> "gather", rating |-> sub.rating,
                review_text |-> sub.review_text,
                settled |-> [user_response |-> sub.user_response,
                             admin_summary |-> sub.admin_summary],
                user_response |-> sub'.user_response,
                admin_summary |-> sub'.admin_summary]
    /\ UNCHANGED <<now, authVars, req, database, lifespan, reviews, submitted,
                   saved>>

\* the recommended-actions call settles and process_review returns; on its
\* results submit_review calls save_review, which suspends in insert_one; had
\* process_review raised, the handler would be in its fallback save (line 82)
generate_recommended_actions(outcome) ==
    /\ sub.pc = "actions"
    /\ LET failed == IF outcome.kind = "text" THEN sub.failed
                     ELSE sub.failed \cup {"recommended_actions"}
           results == process_review(sub.rating, sub.review_text,
                                     sub.user_response, sub.admin_summary,
                                     Settle(outcome), failed)
       IN  /\ sub' = [pc |-> IF results.raised THEN "fallback_save" ELSE "save",
                      rating |-> sub.rating, text |-> sub.text,
                      review_text |-> sub.review_text,
                      start_time |-> sub.start_time,
                      llm_results |-> results,
                      processing_time_ms |-> ProcessingTimeMs(sub.start_time),
                      failed |-> failed, inserted |-> 0, saves_failed |-> 0]
           /\ last' = [op |-> "process_review", rating |-> sub.rating,
                       review_text |-> sub.review_text,
                       settled |-> sub.settled,
                       outcome |-> outcome, failed |-> failed,
                       llm_results |-> results]
    /\ UNCHANGED <<now, authVars, req, database, lifespan, reviews, submitted,
                   saved>>

\* the arguments of the primary save (lines 55-63); status takes the default
\* of save_review
PrimaryArguments ==
    [rating |-> sub.rating,
     review_text |-> sub.review_text,
     user_response |-> sub.llm_results.user_response,
     admin_summary |-> sub.llm_results.admin_summary,
     recommended_actions |-> sub.llm_results.recommended_actions,
     processing_time_ms |-> sub.processing_time_ms,
     llm_model |-> sub.llm_results.model_used,
     status |-> "processed"]

\* the document of the primary save
PrimaryDocument == DocumentOf(PrimaryArguments)

\* insert_one of the primary save returns or raises: the success response
\* (lines 65-73), or on any exception the fallback save is awaited (82-97).
\* Nothing in the try block raises a ValueError once the request has been
\* validated (the store raises RuntimeError or a driver error), so the 400
\* of lines 75-80 is not an outcome of this step.
save_primary(outcome) ==
    /\ sub.pc = "save"
    /\ LET fails == StoreFails(outcome)
           inserted == sub.inserted + Len(reviews') - Len(reviews)
       IN  /\ reviews' = save_review(fails, PrimaryDocument)
           /\ saved' = IF fails THEN saved
                       ELSE Append(saved, [returned |-> str(PrimaryDocument.id),
                                           arguments |-> PrimaryArguments])
           /\ IF AfterPrimarySave(fails) = "fallback_save"
              THEN /\ sub' = [sub EXCEPT
                               !.pc = "fallback_save",
                               !.processing_time_ms =
                                   ProcessingTimeMs(sub.start_time),
                               !.inserted = inserted,
                               !.saves_failed = IF fails THEN @ + 1 ELSE @]
                   /\ last' = [op |-> "save_review", outcome |-> outcome]
              ELSE /\ sub' = IdleSubmission
                   /\ last' = [op |-> "submit_review", status |-> 200,
                               success |-> TRUE, rating |-> sub.rating,
                               text |-> sub.text,
                               user_response |-> sub.llm_results.user_response,
                               submission_id |-> str(PrimaryDocument.id),
                               failed |-> sub.failed,
                               inserted |-> inserted,
                               saves_failed |-> sub.saves_failed]
    /\ UNCHANGED <<now, authVars, req, database, lifespan, submitted>>

\* the arguments of the fallback save (lines 85-97)
FallbackArguments ==
    [rating |-> sub.rating,
     review_text |-> sub.review_text,
     user_response |-> get_fallback_response(sub.rating),
     admin_summary |-> ProcessingFailed,
     recommended_actions |-> ProcessingFailed,
     processing_time_ms |-> sub.processing_time_ms,
     llm_model |-> "fallback",
     status |-> "failed"]

\* the document of the fallback save
FallbackDocument == DocumentOf(FallbackArguments)

\* insert_one of the fallback save returns or raises: the success response
\* (lines 99-105), or 500 (lines 107-112)
save_fallback(outcome) ==
    /\ sub.pc = "fallback_save"
    /\ LET fails == StoreFails(outcome)
           status == FallbackSaveStatus(fails)
       IN  /\ reviews' = save_review(fails, FallbackDocument)
           /\ saved' = IF fails THEN saved
                       ELSE Append(saved, [returned |-> str(FallbackDocument.id),
                                           arguments |-> FallbackArguments])
           /\ sub' = IdleSubmission
           /\ last' = [op |-> "submit_review", status |-> status,
                       success |-> status = 200, rating |-> sub.rating,
                       text |-> sub.text,
                       user_response |-> get_fallback_response(sub.rating),
                       submission_id |->
                            IF status = 200 THEN str(FallbackDocument.id) ELSE 0,
                       failed |-> sub.failed,
                       inserted |-> sub.inserted + Len(reviews') - Len(reviews),
                       saves_failed |->
                            IF fails THEN sub.saves_failed + 1 ELSE sub.saves_failed]
    /\ UNCHANGED <<now, authVars, req, database, lifespan, submitted>>

\* LLMService.get_fallback_response called on its own with any integer: a
\* synchronous table lookup that awaits nothing and touches no state
get_fallback_response_called(rating) ==
    /\ last' = [op |-> "get_fallback_response", rating |-> rating,
                result |-> get_fallback_response(rating)]
    /\ UNCHANGED <<now, authVars, req, database, lifespan, storeVars>>

(* ---------------- admin queries (admin.py, review_service.py) ---------- *)
\* filter_query of get_reviews: exact rating when a filter is given (0 stands
\* for None); the search filter is not modelled
Matches(doc, rating_filter) == rating_filter = 0 \/ doc.rating = rating_filter

\* collection.count_documents(filter_query)
count_documents(rating_filter) ==
    Cardinality({k \in 1..Len(reviews) : Matches(reviews[k], rating_filter)})

\* sort_field_map.get(sort_by, "metadata.submission_time")
SortKey(doc, sort_by) ==
    CASE sort_by = "rating" -> doc.rating
      [] sort_by = "status" -> IF doc.metadata.status = "failed" THEN 0 ELSE 1
      [] OTHER -> doc.metadata.submission_time

\* the documents collection.find(filter_query) selects
Filtered(rating_filter) ==
    {reviews[k] : k \in {j \in 1..Len(reviews) : Matches(reviews[j], rating_filter)}}

\* cursor.sort(sort_field, sort_direction): the orders in which the store may
\* return the documents. The sort key is the one field; the code adds no
\* second key, and the store promises no order among documents whose keys are
\* equal, so every arrangement of them is an outcome of one query.
sort(docs, sort_by, sort_order) ==
    {s \in [1..Cardinality(docs) -> docs] :
        /\ \A j, k \in DOMAIN s : j # k => s[j] # s[k]
        /\ \A j, k \in DOMAIN s : j < k =>
                IF sort_order = "desc"
                THEN SortKey(s[j], sort_by) >= SortKey(s[k], sort_by)
                ELSE SortKey(s[j], sort_by) <= SortKey(s[k], sort_by)}

\* ReviewItem(...) of one document
ReviewItem(doc) ==
    [id |-> str(doc.id), rating |-> doc.rating,
     review_text |-> doc.review_text,
     user_response |-> doc.user_response, admin_summary |-> doc.admin_summary,
     recommended_actions |-> doc.recommended_actions,
     submission_time |-> doc.metadata.submission_time,
     status |-> doc.metadata.status]

\* skip = (page - 1) * page_size
Skip(params) == (params.page - 1) * params.page_size

\* cursor.skip(skip).limit(page_size) over the sorted documents, each made a
\* ReviewItem
Page(sorted, params) ==
    LET stop == IF Skip(params) + params.page_size < Len(sorted)
                THEN Skip(params) + params.page_size ELSE Len(sorted)
        page == SubSeq(sorted, Skip(params) + 1, stop)
    IN  [k \in 1..Len(page) |-> ReviewItem(page[k])]

\* has_more = (skip + len(reviews)) < total_count
HasMore(params, returned, total_count) == Skip(params) + returned < total_count

\* the response a protected handler sends when a store operation raises
\* (admin.py lines 162-167 and 200-205)
QueryFailed(i, op) ==
    /\ req' = [req EXCEPT ![i] = IdleRequest]
    /\ last' = [op |-> op, req |-> i, token |-> req[i].token, status |-> 500,
                queried |-> TRUE, held |-> req[i].held]

\* GET /api/admin/reviews, the handler body up to the count query
\* (review_service.py lines 70-89)
get_reviews_count(i, params, outcome) ==
    /\ req[i].pc = "validated"
    /\ req[i].op = "get_reviews"
    /\ IF StoreFails(outcome)
       THEN QueryFailed(i, "get_reviews")
       ELSE /\ req' = [req EXCEPT ![i] =
                        [pc |-> "find", op |-> "get_reviews",
                         token |-> req[i].token, held |-> req[i].held,
                         params |-> params,
                         total_count |-> count_documents(params.rating)]]
            /\ last' = [op |-> "count_documents", req |-> i,
                        token |-> req[i].token, queried |-> TRUE,
                        held |-> req[i].held]
    /\ UNCHANGED <<now, authVars, database, lifespan, storeVars>>

\* the page query and the response (review_service.py lines 90-113)
get_reviews_find(i, outcome) ==
    /\ req[i].pc = "find"
    /\ IF StoreFails(outcome)
       THEN QueryFailed(i, "get_reviews")
       ELSE LET asked == req[i].params
            IN  \E sorted \in sort(Filtered(asked.rating), asked.sort_by,
                                   asked.sort_order) :
                LET items == Page(sorted, asked)
                IN  /\ req' = [req EXCEPT ![i] = IdleRequest]
                    /\ last' = [op |-> "get_reviews", req |-> i,
                                token |-> req[i].token, status |-> 200,
                                queried |-> TRUE, held |-> req[i].held,
                                params |-> asked,
                                reviews |-> items,
                                total_count |-> req[i].total_count,
                                has_more |-> HasMore(asked, Len(items),
                                                     req[i].total_count)]
    /\ UNCHANGED <<now, authVars, database, lifespan, storeVars>>

\* round(num / den, 2) in hundredths, ties to even
Round2(num, den) ==
    LET q == (100 * num) \div den
        r == (100 * num) % den
    IN  IF 2 * r > den \/ (2 * r = den /\ q % 2 = 1) THEN q + 1 ELSE q

\* datetime.weekday() of the day that starts at hour t (hour 0 is a Thursday)
Weekday(t) == ((t \div 24) + 3) % 7

\* utcnow().replace(hour=0, minute=0, second=0, microsecond=0)
TodayStart(t) == t - (t % 24)

\* faulty variant: the week is taken to start after today
WeekStart_ahead(today_start) == today_start + 24 * Weekday(today_start)

\* today_start - timedelta(days=today_start.weekday())
WeekStart(today_start) == today_start - 24 * Weekday(today_start)

\* count_documents({"metadata.submission_time": {"$gte": since}})
CountSince(since) ==
    Cardinality({k \in 1..Len(reviews) :
                    reviews[k].metadata.submission_time >= since})

\* GET /api/admin/analytics: count_documents({}) (lines 122-123)
get_analytics_total(i, outcome) ==
    /\ req[i].pc = "validated"
    /\ req[i].op = "get_analytics"
    /\ IF StoreFails(outcome)
       THEN QueryFailed(i, "get_analytics")
       ELSE /\ req' = [req EXCEPT ![i] =
                        [pc |-> "aggregate", op |-> "get_analytics",
                         token |-> req[i].token, held |-> req[i].held,
                         total_reviews |-> Len(reviews)]]
            /\ last' = [op |-> "count_documents", req |-> i,
                        token |-> req[i].token, queried |-> TRUE,
                        held |-> req[i].held]
    /\ UNCHANGED <<now, authVars, database, lifespan, storeVars>>

\* the $group aggregation, the average and the start of today (lines 124-143)
get_analytics_aggregate(i, outcome) ==
    /\ req[i].pc = "aggregate"
    /\ IF StoreFails(outcome)
       THEN QueryFailed(i, "get_analytics")
       ELSE LET groups == {reviews[k].rating : k \in 1..Len(reviews)}
                count(r) == Cardinality({k \in 1..Len(reviews) :
                                            reviews[k].rating = r})
                buckets == {"1", "2", "3", "4", "5"}
                distribution ==
                    [b \in buckets \cup {ToString(r) : r \in groups} |->
                        IF \E r \in groups : ToString(r) = b
                        THEN count(CHOOSE r \in groups : ToString(r) = b)
                        ELSE 0]
                RECURSIVE Sum(_)
                Sum(S) == IF S = {} THEN 0
                          ELSE LET r == CHOOSE x \in S : TRUE
                               IN  r * count(r) + Sum(S \ {r})
                total == req[i].total_reviews
            IN  /\ req' = [req EXCEPT ![i] =
                            [pc |-> "today", op |-> "get_analytics",
                             token |-> req[i].token, held |-> req[i].held,
                             total_reviews |-> total,
                             rating_distribution |-> distribution,
                             average_rating |->
                                IF total > 0 THEN Round2(Sum(groups), total) ELSE 0,
                             today_start |-> TodayStart(now)]]
                /\ last' = [op |-> "aggregate", req |-> i,
                            token |-> req[i].token, queried |-> TRUE,
                            held |-> req[i].held]
    /\ UNCHANGED <<now, authVars, database, lifespan, storeVars>>

\* the count of today's reviews (lines 144-147)
get_analytics_today(i, outcome) ==
    /\ req[i].pc = "today"
    /\ IF StoreFails(outcome)
       THEN QueryFailed(i, "get_analytics")
       ELSE /\ req' = [req EXCEPT ![i] =
                        [pc |-> "week", op |-> "get_analytics",
                         token |-> req[i].token, held |-> req[i].held,
                         total_reviews |-> req[i].total_reviews,
                         rating_distribution |-> req[i].rating_distribution,
                         average_rating |-> req[i].average_rating,
                         today_start |-> req[i].today_start,
                         reviews_today |-> CountSince(req[i].today_start),
                         week_start |-> WeekStart(req[i].today_start)]]
            /\ last' = [op |-> "count_documents", req |-> i,
                        token |-> req[i].token, queried |-> TRUE,
                        held |-> req[i].held]
    /\ UNCHANGED <<now, authVars, database, lifespan, storeVars>>

\* the count of this week's reviews and the response (lines 148-158)
get_analytics_week(i, outcome) ==
    /\ req[i].pc = "week"
    /\ IF StoreFails(outcome)
       THEN QueryFailed(i, "get_analytics")
       ELSE /\ req' = [req EXCEPT ![i] = IdleRequest]
            /\ last' = [op |-> "get_analytics", req |-> i,
                        token |-> req[i].token, status |-> 200,
                        queried |-> TRUE, held |-> req[i].held,
                        total_reviews |-> req[i].total_reviews,
                        average_rating |-> req[i].average_rating,
                        rating_distribution |-> req[i].rating_distribution,
                        reviews_today |-> req[i].reviews_today,
                        reviews_this_week |-> CountSince(req[i].week_start)]
    /\ UNCHANGED <<now, authVars, database, lifespan, storeVars>>

(* ------------------ lookup by id (review_service.py) ------------------- *)
\* ObjectId(review_id): the id a string of 24 hexadecimal digits denotes;
\* any other string raises InvalidId
ObjectId(review_id) ==
    IF DOMAIN review_id = {"hex"}
    THEN [raised |-> FALSE, id |-> review_id.hex]
    ELSE [raised |-> TRUE, id |-> 0]

\* collection.find_one({"_id": id}): the documents with that id
find_one(id) == {k \in 1..Len(reviews) : reviews[k].id = id}

\* faulty variant: the reply and the summary change places
ReviewDict_swapped(doc) ==
    [id |-> str(doc.id), rating |-> doc.rating,
     review_text |-> doc.review_text,
     user_response |-> doc.admin_summary, admin_summary |-> doc.user_response,
     recommended_actions |-> doc.recommended_actions,
     submission_time |-> doc.metadata.submission_time,
     status |-> doc.metadata.status]

\* the dictionary get_review_by_id builds from a document (lines 168-177)
ReviewDict(doc) ==
    [id |-> str(doc.id), rating |-> doc.rating,
     review_text |-> doc.review_text,
     user_response |-> doc.user_response, admin_summary |-> doc.admin_summary,
     recommended_actions |-> doc.recommended_actions,
     submission_time |-> doc.metadata.submission_time,
     status |-> doc.metadata.status]

\* faulty variant: a string that is no ObjectId is not caught
LookupRaises_invalid_id(parsed) == database = "None" \/ parsed.raised

\* get_review_by_id raises only from get_reviews_collection (line 162), which
\* stands before the try; InvalidId and the errors of find_one are caught
LookupRaises(parsed) == database = "None"

\* ReviewService.get_review_by_id(review_id): None (found FALSE) when the
\* string is no ObjectId, when find_one raises and when no document matches
get_review_by_id(review_id, outcome) ==
    /\ LET parsed == ObjectId(review_id)
           hits == IF parsed.raised \/ StoreFails(outcome) THEN {}
                   ELSE find_one(parsed.id)
       IN  last' = [op |-> "get_review_by_id", review_id |-> review_id,
                    outcome |-> outcome, before |-> reviews,
                    raised |-> LookupRaises(parsed),
                    found |-> ~LookupRaises(parsed) /\ hits # {},
                    result |-> IF hits # {}
                               THEN ReviewDict(reviews[CHOOSE k \in hits : TRUE])
                               ELSE << >>]
    /\ UNCHANGED <<now, authVars, req, database, lifespan, storeVars>>

(* --------------------------- specifications ---------------------------- *)
Init ==
    /\ now = 0
    /\ active_tokens = << >>
    /\ issued = 0
    /\ logged_out = {}
    /\ req = [i \in Requests |-> IdleRequest]
    /\ database = "None"
    /\ lifespan = "startup"
    /\ reviews = << >>
    /\ sub = IdleSubmission
    /\ submitted = 0
    /\ saved = << >>
    /\ last = [op |-> "init"]

\* the admin session guard alone: login, logout, validation, the clock
NextAuth ==
    \/ connect_to_mongodb
    \/ Tick
    \/ \E p \in Passwords, d \in ClockDrift :
        /\ p = admin_password => issued < MaxLogins /\ now + d <= MaxTime
        /\ admin_login(p, d)
    \/ \E i \in Requests, t \in 0..issued : validate_token(i, "logout", t)
    \/ \E i \in Requests : admin_logout(i)

SpecAuth == Init /\ [][NextAuth]_vars

\* query parameters of GET /api/admin/reviews: the defaults
DefaultParams ==
    {[page |-> 1, page_size |-> 20, rating |-> 0,
      sort_by |-> "submission_time", sort_order |-> "desc"]}

\* The admin session guard in front of the protected routes.  The clock
\* drift inside a login is left to NextAuth; one request at a time runs a
\* store query while the other requests in flight log out.
QueryInFlight == \E j \in Requests : req[j].pc # "idle" /\ req[j].op # "logout"

NextAdmin ==
    \/ connect_to_mongodb
    \/ Tick
    \/ /\ issued < MaxLogins
       /\ admin_login(admin_password, 0)
    \/ \E i \in Requests, op \in ProtectedOps, t \in 0..issued :
        /\ op # "logout" => ~QueryInFlight
        /\ validate_token(i, op, t)
    \/ \E i \in Requests : admin_logout(i)
    \/ \E i \in Requests, q \in DefaultParams, o \in StoreOutcomes :
        get_reviews_count(i, q, o)
    \/ \E i \in Requests, o \in StoreOutcomes : get_reviews_find(i, o)
    \/ \E i \in Requests, o \in StoreOutcomes : get_analytics_total(i, o)
    \/ \E i \in Requests, o \in StoreOutcomes : get_analytics_aggregate(i, o)
    \/ \E i \in Requests, o \in StoreOutcomes : get_analytics_today(i, o)
    \/ \E i \in Requests, o \in StoreOutcomes : get_analytics_week(i, o)

SpecAdmin == Init /\ [][NextAdmin]_vars

\* requests a client may post to /api/user/submit-review
Ratings == 0..6
ReviewTexts ==
    {[lead |-> 0, core |-> 9, trail |-> 0], [lead |-> 1, core |-> 9, trail |-> 0],
     [lead |-> 0, core |-> 10, trail |-> 0], [lead |-> 1, core |-> 10, trail |-> 1],
     [lead |-> 0, core |-> 1000, trail |-> 0], [lead |-> 0, core |-> 1000, trail |-> 1],
     [lead |-> 0, core |-> 1001, trail |-> 0], [lead |-> 12, core |-> 0, trail |-> 0]}

\* the submission pipeline alone
NextSubmit ==
    \/ connect_to_mongodb
    \/ \E r \in Ratings, t \in ReviewTexts :
        /\ submitted < MaxSubmissions
        /\ submit_review(r, t)
    \/ \E o \in LLMOutcomes : generate_user_response(o)
    \/ \E o \in LLMOutcomes : generate_admin_summary(o)
    \/ gather_returns
    \/ \E o \in LLMOutcomes : generate_recommended_actions(o)
    \/ \E o \in StoreOutcomes : save_primary(o)
    \/ \E o \in StoreOutcomes : save_fallback(o)

SpecSubmit == Init /\ [][NextSubmit]_vars

\* the submission pipeline, and the fallback lookup called directly with
\* integers inside and outside 1..5 (the lookup reads no state, so it is
\* called before the first submission only)
NextFallback ==
    \/ NextSubmit
    \/ \E r \in Ratings :
        /\ submitted = 0
        /\ get_fallback_response_called(r)

SpecFallback == Init /\ [][NextFallback]_vars

\* inputs of the store specification
StoreRatings == {1, 5}
StoreText == [lead |-> 0, core |-> 10, trail |-> 0]
StoreLLMOutcome == [kind |-> "text", text |-> <<" ", "a", " ">>]
\* strings given to get_review_by_id: the ids of stored and of never stored
\* documents, and strings that are no ObjectId
ReviewIds ==
    {str(k) : k \in 1..(MaxStored + 1)}
        \cup {[raw |-> "review-1"], [raw |-> ""]}

Quiescent == sub.pc = "idle" /\ \A i \in Requests : req[i].pc = "idle"

\* The store under every operation of the service: submissions (the
\* external calls all returning text), one admin session that lists, reads
\* the analytics and logs out while submissions are in flight, and lookups
\* by id. A lookup is one step that reads the collection only, so it is
\* taken between the other requests.
NextStore ==
    \/ connect_to_mongodb
    \/ /\ issued < MaxSessions
       /\ admin_login(admin_password, 0)
    \/ \E op \in ProtectedOps, t \in 1..MaxSessions : validate_token(1, op, t)
    \/ admin_logout(1)
    \/ \E q \in DefaultParams, o \in StoreOutcomes : get_reviews_count(1, q, o)
    \/ \E o \in StoreOutcomes : get_reviews_find(1, o)
    \/ \E o \in StoreOutcomes : get_analytics_total(1, o)
    \/ \E o \in StoreOutcomes : get_analytics_aggregate(1, o)
    \/ \E o \in StoreOutcomes : get_analytics_today(1, o)
    \/ \E o \in StoreOutcomes : get_analytics_week(1, o)
    \/ \E r \in StoreRatings :
        /\ submitted < MaxStored
        /\ submit_review(r, StoreText)
    \/ generate_user_response(StoreLLMOutcome)
    \/ generate_admin_summary(StoreLLMOutcome)
    \/ gather_returns
    \/ generate_recommended_actions(StoreLLMOutcome)
    \/ \E o \in StoreOutcomes : save_primary(o)
    \/ \E o \in StoreOutcomes : save_fallback(o)
    \/ \E id \in ReviewIds, o \in StoreOutcomes :
        /\ Quiescent
        /\ get_review_by_id(id, o)

SpecStore == Init /\ [][NextStore]_vars

\* The analytics of one admin session while the clock advances and
\* submissions are saved between its queries; every store operation answers
\* and every review has five stars, neither of which the counts by
\* submission time look at.
NextClock ==
    \/ connect_to_mongodb
    \/ Tick
    \/ /\ issued < MaxSessions
       /\ admin_login(admin_password, 0)
    \/ \E t \in 1..MaxSessions : validate_token(1, "get_analytics", t)
    \/ get_analytics_total(1, "ok")
    \/ get_analytics_aggregate(1, "ok")
    \/ get_analytics_today(1, "ok")
    \/ get_analytics_week(1, "ok")
    \/ /\ submitted < MaxStored
       /\ submit_review(5, StoreText)
    \/ generate_user_response(StoreLLMOutcome)
    \/ generate_admin_summary(StoreLLMOutcome)
    \/ gather_returns
    \/ generate_recommended_actions(StoreLLMOutcome)
    \/ save_primary("ok")

SpecClock == Init /\ [][NextClock]_vars

\* The routes and the lookup called with and without the startup connect
\* having set the storage handle.
NextUninit ==
    \/ connect_to_mongodb
    \/ serve_without_lifespan
    \/ /\ issued < MaxSessions
       /\ admin_login(admin_password, 0)
    \/ \E op \in {"get_reviews", "get_analytics"}, t \in 1..MaxSessions :
        validate_token(1, op, t)
    \/ \E q \in DefaultParams, o \in StoreOutcomes : get_reviews_count(1, q, o)
    \/ \E o \in StoreOutcomes : get_reviews_find(1, o)
    \/ \E o \in StoreOutcomes : get_analytics_total(1, o)
    \/ \E o \in StoreOutcomes : get_analytics_aggregate(1, o)
    \/ \E o \in StoreOutcomes : get_analytics_today(1, o)
    \/ \E o \in StoreOutcomes : get_analytics_week(1, o)
    \/ \E r \in StoreRatings :
        /\ submitted < MaxSubmissions
        /\ submit_review(r, StoreText)
    \/ generate_user_response(StoreLLMOutcome)
    \/ generate_admin_summary(StoreLLMOutcome)
    \/ gather_returns
    \/ generate_recommended_actions(StoreLLMOutcome)
    \/ \E o \in StoreOutcomes : save_primary(o)
    \/ \E o \in StoreOutcomes : save_fallback(o)
    \/ \E id \in ReviewIds, o \in StoreOutcomes :
        /\ Quiescent
        /\ get_review_by_id(id, o)

SpecUninit == Init /\ [][NextUninit]_vars

(* ---------------------- session guard: properties ---------------------- *)
\* C1: session lifecycle: the token returned by a successful login passes
\* validate_token at once; after admin_logout with a token, validate_token of
\* it fails; and once more than session_expire_hours have passed since the
\* token's created_at, validate_token of it fails though nobody logged out.
C1_SessionLifecycle ==
    /\ last.op = "admin_login" /\ last.status = 200
            => ValidateTokenOutcome(active_tokens, last.token, now) = "ok"
    /\ \A t \in logged_out :
            ValidateTokenOutcome(active_tokens, t, now) # "ok"
    /\ \A t \in DOMAIN active_tokens :
            now > active_tokens[t].created_at + session_expire_hours
                => ValidateTokenOutcome(active_tokens, t, now) # "ok"

\* one session was ended by logout, another outlived session_expire_hours
\* and nobody logged it out
C1_Witness ==
    /\ logged_out # {}
    /\ \E t \in DOMAIN active_tokens :
            now > active_tokens[t].created_at + session_expire_hours

\* C2 as claimed: logout reports success for every token, also one that is
\* absent from the map, already logged out or expired, and leaves it absent.
C2_LogoutAlwaysSucceeds ==
    /\ last.op = "validate_token" /\ last.for = "logout" => last.status # 401
    /\ last.op = "admin_logout"
            => last.status = 200 /\ last.token \notin DOMAIN active_tokens

\* C2 as amended: a logout request always leaves its token absent from the
\* map; it reports success when the token passes validate_token and is
\* answered 401 when the token is unknown, expired or was logged out before
\* the request arrived, and in that case changes nothing but the eviction of
\* the expired entry, so a second logout leaves the state of the first.
C2_LogoutRemovesOrRejects ==
    /\ last.op = "validate_token" /\ last.for = "logout" =>
        LET valid == /\ last.token \in DOMAIN last.before
                     /\ now <= last.before[last.token].expires_at
        IN  /\ last.status = IF valid THEN 200 ELSE 401
            /\ ~valid => last.token \notin DOMAIN active_tokens
            /\ ~valid => \A t \in DOMAIN last.before \ {last.token} :
                            /\ t \in DOMAIN active_tokens
                            /\ active_tokens[t] = last.before[t]
            /\ last.token \in logged_out =>
                    last.status = 401 /\ active_tokens = last.before
    /\ last.op = "admin_logout" =>
        /\ last.status = 200
        /\ last.token \notin DOMAIN active_tokens

\* a second logout of a token, after the first one completed, was answered 401
C2_Witness ==
    /\ last.op = "validate_token" /\ last.for = "logout"
    /\ last.token \in logged_out
    /\ last.status = 401

\* C3: validate_token rejects with 401 a token that is not in the map and
\* leaves the map unchanged; rejects with 401 a token with now > expires_at and
\* removes exactly that entry; otherwise (now <= expires_at, equality
\* included) accepts and leaves the map unchanged.  It never adds an entry
\* and never touches another token's entry.
C3_ValidateToken ==
    last.op = "validate_token" =>
        LET before == last.before
            token == last.token
        IN  /\ IF token \notin DOMAIN before
               THEN last.status = 401 /\ active_tokens = before
               ELSE IF now > before[token].expires_at
               THEN /\ last.status = 401
                    /\ DOMAIN active_tokens = DOMAIN before \ {token}
               ELSE last.status = 200 /\ active_tokens = before
            /\ DOMAIN active_tokens \subseteq DOMAIN before
            /\ \A t \in DOMAIN before \ {token} :
                    t \in DOMAIN active_tokens /\ active_tokens[t] = before[t]

\* a token was accepted at the very instant of its expiry, with another
\* session in the map
C3_Witness ==
    /\ last.op = "validate_token"
    /\ last.token \in DOMAIN last.before
    /\ now = last.before[last.token].expires_at
    /\ last.status = 200
    /\ Cardinality(DOMAIN active_tokens) = 2

\* C4: admin_login with a password that differs from admin_password is
\* rejected with 401, returns no token and leaves the token map as it was.
\* (The empty password never reaches admin_login: the request schema rejects
\* it with 400; no token is returned and the map is unchanged then too.)
C4_WrongPassword ==
    last.op = "admin_login" /\ last.password # admin_password =>
        /\ last.status = IF Len(last.password) >= 1 THEN 401 ELSE 400
        /\ last.token = 0
        /\ active_tokens = last.before

\* a wrong password was rejected with 401 while a session was active
C4_Witness ==
    /\ last.op = "admin_login"
    /\ last.password = "letmein"
    /\ last.status = 401
    /\ DOMAIN active_tokens # {}

\* the step just taken ran a query against the review store
Queried == "queried" \in DOMAIN last /\ last.queried

\* C5: list reviews and analytics query the review store only after
\* validate_token accepted the presented token in that request, that is for a
\* token that was in the map and not past expires_at when it was validated; a
\* request with an unknown, logged-out or expired token gets 401 and causes
\* no store query.
C5_QueryOnlyAfterValidation ==
    /\ last.op = "validate_token" =>
        LET valid == /\ last.token \in DOMAIN last.before
                     /\ now <= last.before[last.token].expires_at
        IN  /\ ~last.queried
            /\ ~valid => last.status = 401 /\ req[last.req].pc = "idle"
    /\ Queried => last.held
    /\ \A i \in Requests : req[i].pc # "idle" => req[i].held

\* a store query ran for a request whose token was valid when validated and
\* has left the map since (another request logged it out)
C5_Witness ==
    /\ Queried
    /\ last.op = "get_reviews" /\ last.status = 200
    /\ last.held
    /\ last.token \in logged_out

(* ------------------------ submission: properties ----------------------- *)
Artifacts == {"user_response", "admin_summary", "recommended_actions"}

\* the document the step just taken inserted
LastDocument == reviews[Len(reviews)]

\* C6: process_review never raises to its caller: whatever the rating and the
\* text, and whichever of the three external calls fail (error or timeout),
\* it returns a result holding user_response, admin_summary,
\* recommended_actions (each a text) and model_used.
C6_ProcessReviewNeverRaises ==
    last.op = "process_review" =>
        /\ ~last.llm_results.raised
        /\ Artifacts \cup {"model_used"} \subseteq DOMAIN last.llm_results
        /\ \A f \in Artifacts : last.llm_results[f] \in Seq(STRING)
        /\ last.llm_results.model_used \in STRING

\* process_review has returned after all three external calls failed, the
\* last one by a timeout
C6_Witness ==
    /\ last.op = "process_review"
    /\ last.failed = Artifacts
    /\ last.outcome.kind = "timeout"

\* C7: whenever an external call failed during process_review and fallback
\* content was substituted, model_used is "fallback", and so is
\* metadata.llm_model of the document stored for that submission.
C7_FallbackModelUsed ==
    /\ last.op = "process_review" /\ last.failed # {}
            => last.llm_results.model_used = "fallback"
    /\ last.op = "submit_review" /\ last.inserted = 1 /\ last.failed # {}
            => LastDocument.metadata.llm_model = "fallback"

\* C8: a stored review has status processed when the analysis of its
\* submission succeeded, and status failed when an external call failed.
C8_StatusTellsAnalysisFailure ==
    last.op = "submit_review" /\ last.inserted = 1 =>
        LastDocument.metadata.status =
            IF last.failed = {} THEN "processed" ELSE "failed"

C10_ExactlyOneInsert ==
    /\ last.op = "submit_review" =>
            last.inserted = IF last.status = 200 THEN 1 ELSE 0
    /\ sub.pc # "idle" => sub.inserted = 0
    /\ Len(reviews) <= submitted

\* a request whose primary save failed was answered with success by the
\* fallback save, and the store holds its one document
C10_Witness ==
    /\ last.op = "submit_review"
    /\ last.status = 200
    /\ last.saves_failed = 1
    /\ last.inserted = 1
    /\ Len(reviews) = 1
    /\ str(LastDocument.id) = last.submission_id

(* --------------------- stored reviews: properties ---------------------- *)
\* the length of a review text once surrounding whitespace is removed
TrimmedLen(text) == text.core

\* C11: a submission whose rating is outside 1..5 or whose trimmed text is
\* shorter than 10 or longer than 1000 characters is answered 400 without any
\* external call having been started and without anything being stored; so
\* every submission in analysis and every stored review has a rating in 1..5
\* and as review_text the trimmed input, 10 to 1000 characters long.
C11_ValidationBeforeAnything ==
    /\ last.op \in {"submit_review", "submit_review_received"}
       /\ (last.rating \notin 1..5 \/ TrimmedLen(last.text) < 10
                                   \/ TrimmedLen(last.text) > 1000)
            => /\ last.op = "submit_review" /\ last.status = 400
               /\ sub = IdleSubmission
               /\ last.inserted = 0
    /\ last.op = "submit_review_received"
            => /\ sub.pc = "gather" /\ sub.rating = last.rating
               /\ sub.review_text =
                     [lead |-> 0, core |-> TrimmedLen(last.text), trail |-> 0]
    /\ sub.pc # "idle"
            => /\ sub.rating \in 1..5
               /\ TextLen(sub.review_text) \in 10..1000
    /\ last.op = "submit_review" /\ last.inserted = 1
            => /\ LastDocument.rating = last.rating
               /\ LastDocument.review_text =
                     [lead |-> 0, core |-> TrimmedLen(last.text), trail |-> 0]
    /\ \A k \in 1..Len(reviews) :
            /\ reviews[k].rating \in 1..5
            /\ reviews[k].review_text.lead = 0
            /\ reviews[k].review_text.trail = 0
            /\ TextLen(reviews[k].review_text) \in 10..1000

\* a five-star review of nine characters behind a leading blank, ten
\* characters as sent, was refused with nothing started and nothing stored
C11_Witness ==
    /\ last.op = "submit_review" /\ last.status = 400
    /\ last.rating = 5
    /\ TextLen(last.text) = 10 /\ TrimmedLen(last.text) = 9
    /\ sub = IdleSubmission /\ reviews = << >>

(* ------------------------ analysis: properties ------------------------- *)
\* C18: the user-reply and the admin-summary call fail independently. A
\* result is produced only once both have settled; a call that returned has
\* its real (stripped) text in the result whatever the other call did, and
\* only a call that failed is replaced, by its own fallback.
C18_IndependentFailures ==
    /\ sub.pc = "actions"
            => sub.settled.user_response.done /\ sub.settled.admin_summary.done
    /\ last.op \in {"gather", "process_review"} =>
        LET reply == last.settled.user_response
            summary == last.settled.admin_summary
            result == IF last.op = "gather" THEN last ELSE last.llm_results
        IN  /\ reply.done /\ summary.done
            /\ result.user_response =
                    IF reply.exc THEN FALLBACK_RESPONSES[last.rating]
                    ELSE reply.text
            /\ result.admin_summary =
                    IF summary.exc
                    THEN AutoSummaryFailed(last.rating, last.review_text)
                    ELSE summary.text
    /\ last.op = "generate_user_response" /\ last.outcome.kind = "text"
            => sub.user_response.text = Strip(last.outcome.text)
    /\ last.op = "generate_admin_summary" /\ last.outcome.kind = "text"
            => sub.admin_summary.text = Strip(last.outcome.text)

\* process_review returned the model's reply next to the fallback summary:
\* the reply call had returned text and the summary call had raised
C18_Witness ==
    /\ last.op = "process_review"
    /\ ~last.settled.user_response.exc
    /\ last.settled.admin_summary.exc
    /\ last.llm_results.user_response = <<"a">>
    /\ last.llm_results.admin_summary =
            AutoSummaryFailed(last.rating, last.review_text)

(* ---------------------- admin queries: properties --------------------- *)
\* page sizes, filters and sort orders of the pagination property
MaxPageSize == 2
PageSizes == 1..MaxPageSize
RatingFilters == 0..5
SortFields == {"submission_time", "rating", "status"}
SortOrders == {"asc", "desc"}

\* the number of pages of `total` items: page 1 alone when there are none
NumPages(total, page_size) ==
    IF total = 0 THEN 1 ELSE (total + page_size - 1) \div page_size

RECURSIVE Concat(_, _)
Concat(pages, n) == IF n = 0 THEN << >> ELSE Concat(pages, n - 1) \o pages[n]

\* C12: over an unchanging collection, for any rating filter, sort and page
\* size, the pages 1..N requested in turn hold, concatenated, every review of
\* the filtered set exactly once; has_more is false on the last page and true
\* on every earlier one.
C12_PaginationPartitions ==
    \A f \in RatingFilters, ps \in PageSizes, sb \in SortFields, so \in SortOrders :
        LET docs == Filtered(f)
            total == count_documents(f)
            N == NumPages(total, ps)
            params(p) == [page |-> p, page_size |-> ps, rating |-> f,
                          sort_by |-> sb, sort_order |-> so]
        IN  \A answer \in [1..N -> sort(docs, sb, so)] :
                LET pages == [p \in 1..N |-> Page(answer[p], params(p))]
                    all == Concat(pages, N)
                IN  /\ Len(all) = total
                    /\ {all[k].id : k \in 1..Len(all)} = {str(d.id) : d \in docs}
                    /\ \A p \in 1..N :
                          HasMore(params(p), Len(pages[p]), total) = (p < N)

Buckets == {"1", "2", "3", "4", "5"}

\* the sum of rating * count over the buckets of a rating distribution
WeightedSum(distribution) ==
    1 * distribution["1"] + 2 * distribution["2"] + 3 * distribution["3"]
        + 4 * distribution["4"] + 5 * distribution["5"]

\* C13: in every result of get_analytics the rating distribution has exactly
\* the buckets 1..5 and its five counts add up to total_reviews.
C13_DistributionSumsToTotal ==
    last.op = "get_analytics" /\ last.status = 200 =>
        /\ DOMAIN last.rating_distribution = Buckets
        /\ last.rating_distribution["1"] + last.rating_distribution["2"]
            + last.rating_distribution["3"] + last.rating_distribution["4"]
            + last.rating_distribution["5"] = last.total_reviews

\* C14: in every result of get_analytics average_rating is 0.0 when
\* total_reviews is 0; otherwise it is sum(rating * count) / total_reviews over
\* the rating distribution, rounded to two decimals, and lies between 1 and 5
\* (average_rating is held in hundredths).
C14_AverageRating ==
    last.op = "get_analytics" /\ last.status = 200 =>
        IF last.total_reviews = 0
        THEN last.average_rating = 0
        ELSE /\ last.average_rating =
                    Round2(WeightedSum(last.rating_distribution),
                           last.total_reviews)
             /\ last.average_rating >= 100 /\ last.average_rating <= 500

(* ----------------------- review store: properties ---------------------- *)
RoundTripFields ==
    {"rating", "review_text", "user_response", "admin_summary",
     "recommended_actions", "status"}

\* C15: once save_review has returned an id, get_review_by_id called with
\* that id, its query answering, yields the review with the rating,
\* review_text, user_response, admin_summary, recommended_actions and status
\* that were saved, whatever was done in between.
C15_RoundTrip ==
    /\ last.op = "submit_review" /\ last.status = 200
            => last.submission_id = saved[Len(saved)].returned
    /\ last.op = "get_review_by_id" /\ last.outcome = "ok" =>
            \A k \in 1..Len(saved) :
                last.review_id = saved[k].returned =>
                    /\ ~last.raised /\ last.found
                    /\ last.result.id = last.review_id
                    /\ \A f \in RoundTripFields :
                            last.result[f] = saved[k].arguments[f]

\* the first of two saved reviews, a failed one of rating 1, was read back
\* after the second, a processed one of rating 5, had been saved
C15_Witness ==
    /\ last.op = "get_review_by_id"
    /\ Len(saved) = 2
    /\ last.review_id = saved[1].returned
    /\ last.found
    /\ last.result.rating = 1 /\ last.result.status = "failed"
    /\ saved[2].arguments.rating = 5 /\ saved[2].arguments.status = "processed"

\* C16: with the store connected, get_review_by_id given a string that is no
\* ObjectId, or the id of no stored review, returns the absent value, raises
\* nothing and leaves the store as it was.
C16_LookupNotFound ==
    last.op = "get_review_by_id" /\ database # "None" =>
        LET malformed == DOMAIN last.review_id # {"hex"}
            unmatched == /\ ~malformed
                         /\ \A k \in 1..Len(last.before) :
                                str(last.before[k].id) # last.review_id
        IN  /\ malformed \/ unmatched => ~last.raised /\ ~last.found
            /\ reviews = last.before

\* a string that is no ObjectId was looked up in a store of two reviews
C16_Witness ==
    /\ last.op = "get_review_by_id"
    /\ DOMAIN last.review_id # {"hex"}
    /\ last.outcome = "ok"
    /\ ~last.raised /\ ~last.found
    /\ Len(reviews) = 2

\* C17: a stored review is never changed or removed and the collection only
\* grows: every step leaves the documents already stored as they are, and a
\* step that adds one is the save of a submission, answered with success;
\* listing, analytics, lookup by id, login, logout and token validation add
\* nothing.
C17_StoreOnlyGrows ==
    [][/\ Len(reviews') >= Len(reviews)
       /\ SubSeq(reviews', 1, Len(reviews)) = reviews
       /\ reviews' # reviews =>
            /\ Len(reviews') = Len(reviews) + 1
            /\ sub.pc \in {"save", "fallback_save"}
            /\ last'.op = "submit_review" /\ last'.status = 200]_vars

\* a second review was saved next to the first, and the two were listed
C17_Witness ==
    /\ last.op = "get_reviews" /\ last.status = 200
    /\ Len(last.reviews) = 2
    /\ Len(reviews) = 2

\* C19: the fallback reply for a rating r in 1..5 is the non-empty fixed
\* table entry of exactly that r, and for any other integer the entry of
\* rating 3; this holds for the lookup called on its own, for the reply
\* process_review substitutes for a failed call, and for the reply of the
\* fallback save. The lookup starts no external call and changes nothing.
C19_FallbackReply ==
    /\ \A r \in 1..5 :
            /\ FALLBACK_RESPONSES[r] # << >>
            /\ \A q \in 1..5 : q # r => FALLBACK_RESPONSES[q] # FALLBACK_RESPONSES[r]
    /\ last.op = "get_fallback_response" =>
            /\ last.result = IF last.rating \in 1..5
                              THEN FALLBACK_RESPONSES[last.rating]
                              ELSE FALLBACK_RESPONSES[3]
            /\ last.result # << >>
            /\ sub = IdleSubmission
    /\ last.op = "gather" /\ last.settled.user_response.exc
            => last.user_response = FALLBACK_RESPONSES[last.rating]
    /\ last.op = "process_review" /\ last.settled.user_response.exc
            => last.llm_results.user_response = FALLBACK_RESPONSES[last.rating]
    /\ last.op = "submit_review" /\ last.status = 200 /\ last.saves_failed = 1
            => /\ last.user_response = FALLBACK_RESPONSES[last.rating]
               /\ LastDocument.user_response = FALLBACK_RESPONSES[last.rating]

\* the lookup was called with 6 and returned the entry of rating 3
C19_Witness ==
    /\ last.op = "get_fallback_response"
    /\ last.rating = 6
    /\ last.result = FALLBACK_RESPONSES[3]

\* C20: in every stored review user_response, admin_summary and
\* recommended_actions are non-empty texts, also when the external model
\* returned an empty or whitespace-only text.
C20_ArtifactsNonEmpty ==
    \A k \in 1..Len(reviews) : \A f \in Artifacts :
        reviews[k][f] \in Seq(STRING) /\ reviews[k][f] # << >>

(* ------------------- session guard: further properties ----------------- *)
\* C21: every entry of the token map has expires_at = created_at +
\* session_expire_hours, also when the clock advances between the two clock
\* reads of a login.
C21_ExpiryIsCreationPlusHours ==
    \A t \in DOMAIN active_tokens :
        active_tokens[t].expires_at =
            active_tokens[t].created_at + session_expire_hours

\* C22: a login with the right password succeeds however many sessions are
\* open, and adds exactly one entry, under a token that was not in the map;
\* every entry that was there stays as it was, so its token is judged by
\* validate_token as before. A logout removes the entry of its own token and
\* no other.
C22_OneEntryPerLogin ==
    /\ last.op = "admin_login" /\ last.password = admin_password =>
            /\ last.status = 200
            /\ last.token \notin DOMAIN last.before
            /\ DOMAIN active_tokens = DOMAIN last.before \cup {last.token}
            /\ \A t \in DOMAIN last.before :
                    /\ active_tokens[t] = last.before[t]
                    /\ ValidateTokenOutcome(active_tokens, t, now) =
                            ValidateTokenOutcome(last.before, t, now)
    /\ last.op = "admin_logout" =>
            /\ DOMAIN active_tokens = DOMAIN last.before \ {last.token}
            /\ \A t \in DOMAIN active_tokens :
                    active_tokens[t] = last.before[t]

\* a second login succeeded while the session of the first was open, and
\* both sessions are in the map
C22_Witness ==
    /\ last.op = "admin_login" /\ last.status = 200
    /\ DOMAIN last.before # {}
    /\ Cardinality(DOMAIN active_tokens) = Cardinality(DOMAIN last.before) + 1
    /\ \A t \in DOMAIN last.before :
            ValidateTokenOutcome(active_tokens, t, now) = "ok"

(* ----------------- admin queries: further properties ------------------- *)
\* C23: in every result of get_reviews skip + the number of returned items
\* is at most total_count, also when a submission is saved between the count
\* query and the page query of the call.
C23_PageWithinTotal ==
    last.op = "get_reviews" /\ last.status = 200 =>
        Skip(last.params) + Len(last.reviews) <= last.total_count

\* C24: in every result of get_analytics reviews_today is at most
\* reviews_this_week, also when submissions are saved between the queries of
\* the call: the week starts at or before the day, the week is counted after
\* the day, and the store never shrinks.
C24_TodayWithinWeek ==
    /\ last.op = "get_analytics" /\ last.status = 200
            => last.reviews_today <= last.reviews_this_week
    /\ \A i \in Requests : req[i].pc = "week" =>
            /\ req[i].week_start <= req[i].today_start
            /\ req[i].reviews_today <= CountSince(req[i].week_start)

\* a review was saved between the day count and the week count of one
\* analytics call, which reports it in the week but not in the day
C24_Witness ==
    /\ last.op = "get_analytics" /\ last.status = 200
    /\ last.reviews_today = 0
    /\ last.reviews_this_week = 1
    /\ Len(reviews) = 1
    /\ reviews[1].metadata.submission_time = now

(* ---------------------- storage handle: properties --------------------- *)
\* with the handle unset nothing is stored and no store operation answers:
\* a validated submission ends in 500 after both saves raised, list and
\* analytics end in 500, the lookup by id raises
UninitialisedStoreRefuses ==
    database = "None" =>
        /\ reviews = << >> /\ saved = << >>
        /\ last.op = "submit_review" /\ last.status # 400
                => /\ last.status = 500 /\ ~last.success
                   /\ last.inserted = 0 /\ last.saves_failed = 2
        /\ last.op \in {"get_reviews", "get_analytics"} => last.status = 500
        /\ last.op \notin {"count_documents", "aggregate"}
        /\ last.op = "get_review_by_id" => last.raised /\ ~last.found

\* C25: the storage handle is set by the startup connect only, never by a
\* request; while it is unset every store operation raises and sets no
\* handle: a submission ends in 500 with nothing stored, both saves having
\* failed, and list and analytics end in 500.
C25_HandleSetByStartupOnly ==
    [][/\ database' # database
            => lifespan = "startup" /\ last'.op = "connect_to_mongodb"
       /\ UninitialisedStoreRefuses']_vars

\* without the startup connect a submission that passed validation and
\* whose analysis returned was answered 500, both saves having raised
C25_Witness ==
    /\ database = "None" /\ lifespan = "unmanaged"
    /\ last.op = "submit_review"
    /\ last.status = 500
    /\ last.saves_failed = 2
    /\ reviews = << >>

====
